---- MODULE Spec2Model ----
(***************************************************************************)
(* Model of src/app.py: the country-code resolver                          *)
(* get_country_name_from_code and the mismatch detector process_data.      *)
(*                                                                         *)
(* A Python string is a sequence of one-character strings, so that strip,  *)
(* upper and comparison are computed character by character.  A cell of a  *)
(* table is a record [kind, s]: kind "str" with the text s, kind "nan"     *)
(* (pandas' missing value), kind "none" (Python's None).  The result       *)
(* kind "raise" stands for an exception leaving a function.                *)
(*                                                                         *)
(* pandas semantics are those of pandas 1.x/2.x: astype(str) turns NaN     *)
(* into 'nan' and None into 'None'.                                        *)
(***************************************************************************)
EXTENDS Integers, Sequences, FiniteSets, TLC

VARIABLES
    heap,          \* the DataFrame objects: heap["df"] is the caller's table,
                   \* heap["df_processed"] the one process_data works on
    df0,           \* the caller's table as it was loaded (history variable)
    outcome,       \* "idle", "returned", "IndexError", "LookupError"
    suspect_df,    \* the caller's suspect_df: the last returned suspect table
    prev,          \* outcome and suspect table of the call before the last
    country_code,  \* the resolver's argument
    result         \* the resolver's result

vars == <<heap, df0, outcome, suspect_df, prev, country_code, result>>

\* ---------------------------------------------------------------- bounds

MaxCodeLen == 4     \* longest code string given to the resolver
MaxRows == 2        \* most rows of an input table
MaxCols == 7        \* most columns of an input table

\* ------------------------------------------------------------ Python str

Str(s) == [kind |-> "str", s |-> s]
NaN == [kind |-> "nan", s |-> <<>>]
None == [kind |-> "none", s |-> <<>>]
Raised == [kind |-> "raise", s |-> <<>>]
NotCalled == [kind |-> "not called", s |-> <<>>]

LowerLetters ==
    <<"a","b","c","d","e","f","g","h","i","j","k","l","m",
      "n","o","p","q","r","s","t","u","v","w","x","y","z">>
UpperLetters ==
    <<"A","B","C","D","E","F","G","H","I","J","K","L","M",
      "N","O","P","Q","R","S","T","U","V","W","X","Y","Z">>

IsSpace(c) == c \in {" ", "\t", "\n"}

\* str.upper(), one character
UpperChar(c) ==
    IF \E i \in DOMAIN LowerLetters : LowerLetters[i] = c
    THEN UpperLetters[CHOOSE i \in DOMAIN LowerLetters : LowerLetters[i] = c]
    ELSE c

\* str.lower(), one character
LowerChar(c) ==
    IF \E i \in DOMAIN UpperLetters : UpperLetters[i] = c
    THEN LowerLetters[CHOOSE i \in DOMAIN UpperLetters : UpperLetters[i] = c]
    ELSE c

UpperNoOp(s) == s

\* str.upper()
Upper(s) == [i \in DOMAIN s |-> UpperChar(s[i])]

\* str.lower()
Lower(s) == [i \in DOMAIN s |-> LowerChar(s[i])]

RECURSIVE LStrip(_)
LStrip(s) == IF s # <<>> /\ IsSpace(Head(s)) THEN LStrip(Tail(s)) ELSE s

RECURSIVE RStrip(_)
RStrip(s) ==
    IF s # <<>> /\ IsSpace(s[Len(s)]) THEN RStrip(SubSeq(s, 1, Len(s) - 1)) ELSE s

\* str.strip()
Strip(s) == RStrip(LStrip(s))

\* str(x) / Series.astype(str) of one cell
AsTypeStr(cell) ==
    CASE cell.kind = "nan" -> <<"n","a","n">>
      [] cell.kind = "none" -> <<"N","o","n","e">>
      [] OTHER -> cell.s

\* ------------------------------------------------------------- pycountry

France == <<"F","r","a","n","c","e">>
Slovenia == <<"S","l","o","v","e","n","i","a">>
UnitedKingdom == <<"U","n","i","t","e","d"," ","K","i","n","g","d","o","m">>

\* An excerpt of pycountry.countries, the reference table.
Countries ==
    { [alpha_2 |-> <<"F","R">>, alpha_3 |-> <<"F","R","A">>, name |-> France],
      [alpha_2 |-> <<"G","B">>, alpha_3 |-> <<"G","B","R">>, name |-> UnitedKingdom],
      [alpha_2 |-> <<"S","I">>, alpha_3 |-> <<"S","V","N">>, name |-> Slovenia] }

Keys == {c.alpha_2 : c \in Countries} \cup {c.alpha_3 : c \in Countries}

\* `country = pycountry.countries.get(field=code); if country: return
\* country.name`: the name, None when there is no such country, or, where
\* missRaises (a pycountry that signals a miss with KeyError), an exception.
LookupName(field, code, missRaises) ==
    LET hit == {c \in Countries : c[field] = code}
    IN  IF hit # {} THEN Str((CHOOSE c \in hit : TRUE).name)
        ELSE IF missRaises THEN Raised
        ELSE None

CatchNothing(r, fallback) == r

\* `try: ... except: <fallback>`: a bare except catches every exception.
Catch(r, fallback) == IF r = Raised THEN fallback ELSE r

\* Lines 13-32, the body of the outer try.
ResolveBody(cell, missRaises) ==
    LET code == Upper(Strip(AsTypeStr(cell)))
        a2 == Catch(LookupName("alpha_2", code, missRaises), None)
        a3 == Catch(LookupName("alpha_3", code, missRaises), None)
    IN  IF a2 # None THEN a2
        ELSE a3

\* get_country_name_from_code, lines 6-35
get_country_name_from_code(cell, missRaises) ==
    IF cell.kind = "nan" \/ cell = Str(<<>>)
    THEN None
    ELSE Catch(ResolveBody(cell, missRaises), None)

\* ------------------------------------------------------------ DataFrames

CODE_COLUMN == 5    \* iloc[:, 5], column F
NAME_COLUMN == 6    \* iloc[:, 6], column G
HELPER == "mapped_country_name"

\* A DataFrame: its column labels, its row labels and its rows of cells.
\* Position p of iloc (from 0) is element p + 1 of a sequence.
NoTable == [columns |-> <<>>, index |-> <<>>, data |-> <<>>]

NCols(t) == Len(t.columns)

HasColumn(t, name) == \E i \in DOMAIN t.columns : t.columns[i] = name

ColumnPos(t, name) == CHOOSE i \in DOMAIN t.columns : t.columns[i] = name

\* df.iloc[:, p]
ILocColumn(t, p) == [r \in DOMAIN t.data |-> t.data[r][p + 1]]

\* df[name]
Column(t, name) == [r \in DOMAIN t.data |-> t.data[r][ColumnPos(t, name)]]

\* df[name] = values: an existing column of that name is overwritten in
\* place, otherwise the column is appended as the last one.
SetColumn(t, name, values) ==
    IF HasColumn(t, name)
    THEN [t EXCEPT !.data =
            [r \in DOMAIN t.data |->
                [t.data[r] EXCEPT ![ColumnPos(t, name)] = values[r]]]]
    ELSE [t EXCEPT !.columns = Append(t.columns, name),
                   !.data = [r \in DOMAIN t.data |-> Append(t.data[r], values[r])]]

RemoveAt(seq, i) == SubSeq(seq, 1, i - 1) \o SubSeq(seq, i + 1, Len(seq))

\* df.drop(name, axis=1)
DropColumn(t, name) ==
    LET i == ColumnPos(t, name)
    IN  [t EXCEPT !.columns = RemoveAt(t.columns, i),
                  !.data = [r \in DOMAIN t.data |-> RemoveAt(t.data[r], i)]]

RECURSIVE MaskPositionsReversed(_, _)
MaskPositionsReversed(mask, i) ==
    IF i > Len(mask) THEN <<>>
    ELSE MaskPositionsReversed(mask, i + 1) \o (IF mask[i] THEN <<i>> ELSE <<>>)

\* The positions a boolean mask selects, in the order of the rows.
RECURSIVE MaskPositions(_, _)
MaskPositions(mask, i) ==
    IF i > Len(mask) THEN <<>>
    ELSE (IF mask[i] THEN <<i>> ELSE <<>>) \o MaskPositions(mask, i + 1)

\* df[mask]: the rows the mask selects, with their labels.
BooleanMask(t, mask) ==
    LET p == MaskPositions(mask, 1)
    IN  [columns |-> t.columns,
         index |-> [j \in DOMAIN p |-> t.index[p[j]]],
         data |-> [j \in DOMAIN p |-> t.data[p[j]]]]

TextNone == <<"N","o","n","e">>
TextNan == <<"n","a","n">>

MismatchNoNoneCheck(mapped, actual) ==
    (mapped # actual) /\ (actual # TextNan)

\* Line 51, one row of the mask.
Mismatch(mapped, actual) ==
    (mapped # actual) /\ (mapped # TextNone) /\ (actual # TextNan)

DfAlias == "df"

\* Line 41: df.copy() is an object of its own.
DfCopy == "df_processed"

\* process_data(df), lines 37-60, on the heap h of DataFrame objects: the
\* heap it leaves, how it ends, and the suspect table it returns.
process_data(h, missRaises) ==
    LET ref == DfCopy
        h1 == [h EXCEPT ![ref] = h["df"]]
        t1 == h1[ref]
    IN  IF NCols(t1) <= CODE_COLUMN
        THEN [heap |-> h1, outcome |-> "IndexError", suspect_df |-> NoTable]
        ELSE
        LET codes == ILocColumn(t1, CODE_COLUMN)
            names == [r \in DOMAIN codes |->
                        get_country_name_from_code(codes[r], missRaises)]
        IN  IF \E r \in DOMAIN names : names[r] = Raised
            THEN [heap |-> h1, outcome |-> "LookupError", suspect_df |-> NoTable]
            ELSE
            LET t2 == SetColumn(t1, HELPER, names)
                h2 == [h1 EXCEPT ![ref] = t2]
            IN  IF NCols(t2) <= NAME_COLUMN
                THEN [heap |-> h2, outcome |-> "IndexError", suspect_df |-> NoTable]
                ELSE
                LET actual == ILocColumn(t2, NAME_COLUMN)
                    actual_countries ==
                        [r \in DOMAIN actual |-> Strip(AsTypeStr(actual[r]))]
                    mapped == Column(t2, HELPER)
                    mapped_countries ==
                        [r \in DOMAIN mapped |-> Strip(AsTypeStr(mapped[r]))]
                    mismatches ==
                        [r \in DOMAIN mapped |->
                            Mismatch(mapped_countries[r], actual_countries[r])]
                    suspect == BooleanMask(t2, mismatches)
                IN  [heap |-> h2,
                     outcome |-> "returned",
                     suspect_df |->
                        IF HasColumn(suspect, HELPER)
                        THEN DropColumn(suspect, HELPER)
                        ELSE suspect]

\* ---------------------------------------------------------------- inputs

CodeAlphabet == {"S", "I", "V", "N", "s", "i", "v", "n", "Z", "1", " "}

Strings(alphabet, n) == UNION {[1..k -> alphabet] : k \in 0..n}

CodeInputs == {NaN} \cup {Str(s) : s \in Strings(CodeAlphabet, MaxCodeLen)}

ColumnLabels == <<"A", "B", "C", "D", "E", "F", "G", "H", "I", "J", "K", "L">>

Data == Str(<<"D","a","t","a">>)

CodeCells ==
    { NaN, Str(<<" ","s","i"," ">>), Str(<<"Z","Z">>) }

NameCells ==
    { NaN,
      Str(<<" "," ">>),
      Str(<<" ">> \o Slovenia \o <<" ">>),
      Str(France),
      Str(<<" ","n","a","n"," ">>) }

\* What columns D and E hold: other data, or a code and a name (a table
\* that follows the convention of positions 3 and 4).
DEPairs == { <<Data, Data>>, <<Str(<<"S","I">>), Str(France)>> }

\* Where an input's own column named like the helper may stand (-1: nowhere).
HelperPlaces(ncols) == {-1} \cup ({0, CODE_COLUMN, NAME_COLUMN} \cap (0..(ncols - 1)))

MakeTable(ncols, helperAt, de, fg) ==
    [columns |-> [c \in 1..ncols |->
                    IF c = helperAt + 1 THEN HELPER ELSE ColumnLabels[c]],
     index |-> [r \in DOMAIN fg |-> r - 1],
     data |-> [r \in DOMAIN fg |->
                [c \in 1..ncols |->
                    CASE c = CODE_COLUMN + 1 -> fg[r][1]
                      [] c = NAME_COLUMN + 1 -> fg[r][2]
                      [] c = 4 -> de[1]
                      [] c = 5 -> de[2]
                      [] OTHER -> Data]]]

\* ------------------------------------------------------------ the system

Idle == [outcome |-> "idle", suspect_df |-> NoTable]

\* A table has been loaded (pd.read_csv, line 219); nothing has run.
Init ==
    /\ \E ncols \in CODE_COLUMN..MaxCols :
       \E helperAt \in HelperPlaces(ncols) :
       \E de \in DEPairs :
       \E n \in 0..MaxRows :
       \E fg \in [1..n -> CodeCells \X NameCells] :
          /\ df0 = MakeTable(ncols, helperAt, de, fg)
          /\ heap = [df |-> df0, df_processed |-> NoTable]
    /\ outcome = "idle"
    /\ suspect_df = NoTable
    /\ prev = Idle
    /\ country_code = NaN
    /\ result = NotCalled

\* main, lines 241-242: suspect_df, processed_df = process_data(df); an
\* exception leaves suspect_df as it was (lines 293-294).
ProcessData ==
    /\ \E missRaises \in BOOLEAN :
         LET r == process_data(heap, missRaises)
         IN  /\ heap' = r.heap
             /\ outcome' = r.outcome
             /\ suspect_df' = IF r.outcome = "returned" THEN r.suspect_df
                              ELSE suspect_df
    /\ prev' = [outcome |-> outcome, suspect_df |-> suspect_df]
    /\ UNCHANGED <<df0, country_code, result>>

Next == ProcessData

Spec == Init /\ [][Next]_vars

\* The resolver alone: one code, resolved once.
InitResolve ==
    /\ country_code \in CodeInputs
    /\ result = NotCalled
    /\ df0 = NoTable
    /\ heap = [df |-> NoTable, df_processed |-> NoTable]
    /\ outcome = "idle"
    /\ suspect_df = NoTable
    /\ prev = Idle

Resolve ==
    /\ result = NotCalled
    /\ \E missRaises \in BOOLEAN :
         result' = get_country_name_from_code(country_code, missRaises)
    /\ UNCHANGED <<heap, df0, outcome, suspect_df, prev, country_code>>

NextResolve == Resolve

SpecResolve == InitResolve /\ [][NextResolve]_vars

\* ---------------------------------------------------------------- claims

Returned == outcome = "returned"

\* The row labels of the suspect table the caller holds.
SuspectLabels == {suspect_df.index[j] : j \in DOMAIN suspect_df.index}

\* The input has both columns and no column of its own named like the helper.
PlainInput == NCols(df0) > NAME_COLUMN /\ ~HasColumn(df0, HELPER)

CodeCell(r) == df0.data[r][CODE_COLUMN + 1]
NameCell(r) == df0.data[r][NAME_COLUMN + 1]

Unresolved(cell) ==
    \A missRaises \in BOOLEAN : get_country_name_from_code(cell, missRaises) = None

\* A reported name that is null, or empty after trimming.
ReportedEmpty(cell) == cell.kind = "nan" \/ Strip(AsTypeStr(cell)) = <<>>

\* The spec's suspect predicate for one row (section 3 and 4.2).
SpecSuspect(code, reported) ==
    LET resolved == get_country_name_from_code(code, FALSE)
    IN  /\ resolved.kind = "str" /\ resolved.s # <<>>
        /\ ~ReportedEmpty(reported)
        /\ Strip(resolved.s) # Strip(reported.s)

\* C1: a row is in the suspect output if and only if its code resolves to a
\* non-empty name, its reported name is non-null and non-empty (after
\* trimming), and the trimmed resolved name differs from the trimmed
\* reported name.
C1_SuspectIffSpecPredicate ==
    (Returned /\ PlainInput) =>
        \A r \in DOMAIN df0.data :
            (df0.index[r] \in SuspectLabels) <=> SpecSuspect(CodeCell(r), NameCell(r))

\* C2: a row whose reported name is null, empty or only whitespace is never
\* in the suspect output, whatever its code cell holds.
C2_EmptyReportedNeverSuspect ==
    (Returned /\ PlainInput) =>
        \A r \in DOMAIN df0.data :
            ReportedEmpty(NameCell(r)) => df0.index[r] \notin SuspectLabels

\* C3: a row whose code cell does not resolve is never in the suspect
\* output, whatever its reported name is.
C3_UnresolvedNeverSuspect ==
    Returned =>
        \A r \in DOMAIN df0.data :
            Unresolved(CodeCell(r)) => df0.index[r] \notin SuspectLabels

\* An unresolvable code beside a real reported name was left out, in a call
\* that did flag another row.
C3_Witness ==
    /\ Returned /\ PlainInput
    /\ \E r \in DOMAIN df0.data :
          /\ CodeCell(r) = Str(<<"Z","Z">>)
          /\ NameCell(r) = Str(France)
          /\ df0.index[r] \notin SuspectLabels
    /\ SuspectLabels # {}

\* C4: on a table with too few columns for positions 5 and 6 (6 columns or
\* fewer) process_data ends with a column-out-of-range error, never normally.
C4_TooFewColumnsFails ==
    (outcome # "idle" /\ NCols(df0) <= NAME_COLUMN) => outcome = "IndexError"

\* The row labels the detector's own comparison flags when the code is read
\* at position codeAt and the reported name at position nameAt.
DetectAt(t, codeAt, nameAt) ==
    { t.index[r] : r \in
        { q \in DOMAIN t.data :
            Mismatch(
                Strip(AsTypeStr(get_country_name_from_code(t.data[q][codeAt + 1], FALSE))),
                Strip(AsTypeStr(t.data[q][nameAt + 1]))) } }

\* The two conventions of the deployed variants.
Conventions == { <<3, 4>>, <<CODE_COLUMN, NAME_COLUMN>> }

\* C5: for either pair of positions the caller's table follows, the rows are
\* classified from the cells at exactly those two positions.
C5_PositionsAreParameters ==
    (Returned /\ PlainInput) =>
        \A p \in Conventions : SuspectLabels = DetectAt(df0, p[1], p[2])

Resolved == result # NotCalled

\* C6: a key of the reference table, the key in lower case and the key
\* between blanks all resolve to the key's country name.
C6_CaseAndBlankInvariant ==
    Resolved =>
        \A c \in Countries : \A f \in {"alpha_2", "alpha_3"} :
            country_code \in
                { Str(c[f]), Str(Lower(c[f])), Str(<<" ">> \o c[f] \o <<" ">>) }
            => result = Str(c.name)

\* The lower-case key "si" resolved to Slovenia.
C6_Witness == country_code = Str(<<"s","i">>) /\ result = Str(Slovenia)

\* C7: the resolver never raises, and returns None for null, for the empty
\* string and for every string that is no key after trim and upper-casing.
C7_NeverRaisesNoneOnMiss ==
    Resolved =>
        /\ result # Raised
        /\ ( \/ country_code = NaN
             \/ country_code = Str(<<>>)
             \/ Upper(Strip(country_code.s)) \notin Keys ) => result = None

\* The unknown code "ZZ" came back as None.
C7_Witness == country_code = Str(<<"Z","Z">>) /\ result = None

\* C8: the suspect rows are input rows, each at most once, in input order:
\* their labels increase strictly, each is an input label, and each cell is
\* the input's cell of that row and column.
C8_OrderPreservingSubsequence ==
    Returned =>
        /\ \A i, j \in DOMAIN suspect_df.index :
              i < j => suspect_df.index[i] < suspect_df.index[j]
        /\ \A j \in DOMAIN suspect_df.index :
              /\ \E r \in DOMAIN df0.index : df0.index[r] = suspect_df.index[j]
              /\ \A c \in DOMAIN suspect_df.columns :
                    /\ HasColumn(df0, suspect_df.columns[c])
                    /\ suspect_df.data[j][c] =
                          df0.data[suspect_df.index[j] + 1]
                                  [ColumnPos(df0, suspect_df.columns[c])]

\* Two rows were flagged.
C8_Witness == Returned /\ PlainInput /\ Len(suspect_df.index) >= 2

\* C9: the suspect table has exactly the input's columns, in order and with
\* the input's cells, also when the input has a column named like the helper.
C9_SameColumnsAsInput ==
    (Returned /\ NCols(df0) > NAME_COLUMN) =>
        /\ suspect_df.columns = df0.columns
        /\ \A j \in DOMAIN suspect_df.data :
              suspect_df.data[j] = df0.data[suspect_df.index[j] + 1]

\* C10: the caller's table is never changed by a call, returning or
\* failing, and a second call ends as the first did with the same suspects.
C10_InputUntouchedAndRepeatable ==
    /\ heap["df"] = df0
    /\ (prev.outcome # "idle") =>
          (outcome = prev.outcome /\ suspect_df = prev.suspect_df)

\* A second call returned, with a suspect, after the helper column was
\* appended to the working copy.
C10_Witness ==
    /\ prev.outcome = "returned"
    /\ Returned /\ PlainInput
    /\ SuspectLabels # {}
    /\ NCols(heap["df_processed"]) = NCols(df0) + 1

====
